---- MODULE Spec2Model ----
(***************************************************************************)
(* The conversation state of the WeyAI chat widget: the SearchChatApp      *)
(* component (message log, loading flag, persisted snapshot) and the       *)
(* earlier variant of the same component that has no persistence.          *)
(* Strings are tuples of one-character strings, so that trim, includes,   *)
(* the template literals and detectCodeBlocks, the function that splits a  *)
(* message into text and code parts, are computed as the code computes     *)
(* them.                                                                   *)
(***************************************************************************)
EXTENDS Integers, Sequences, FiniteSets, TLC

VARIABLES
    variant,         \* which SearchChatApp is mounted: "current" or "legacy"
    mounted,         \* the component is rendered in an open page
    mounts,          \* number of page loads so far
    now,             \* the clock read by Date.now() and new Date()
    messages,        \* useState: the message log
    inputValue,      \* useState: the text of the input control
    isLoading,       \* useState: FALSE = Idle, TRUE = AwaitingResponse
    isSettingsOpen,  \* useState: the settings dialog is shown
    calls,           \* handleSubmit invocations suspended at an await
    storage,         \* localStorage entry under CHAT_STORAGE_KEY
    lastOp,          \* outcome of the handler that ran last ("other": a
                     \* handler that neither submits, resolves, clears nor mounts)
    renderedText,    \* a message content or snippet handed to detectCodeBlocks
    parts            \* what detectCodeBlocks returned for it, once called

vars == <<variant, mounted, mounts, now, messages, inputValue, isLoading,
          isSettingsOpen, calls, storage, lastOp,
          renderedText, parts>>

(* -------------------------- bounds ----------------------------------- *)
MaxLog == 4
MaxMounts == 2
MaxMs == 1
MaxDays == 1
MaxExpanded == 1

(* -------------------------- string literals --------------------------- *)
GreetingText ==
    <<"H", "e", "l", "l", "o", "!", " ", "W", "e", "l", "c", "o", "m", "e",
      " ", "t", "o", " ", "<", "b", ">", "W", "e", "y", "A", "I", "<", "/",
      "b", ">", "!", " ", "A", "s", "k", " ", "m", "e", " ", "a", "n", "y",
      "t", "h", "i", "n", "g", " ", "a", "n", "d", " ", "I", "'", "l", "l",
      " ", "s", "e", "a", "r", "c", "h", " ", "f", "o", "r", " ", "a", "n",
      "s", "w", "e", "r", "s", ".">>

LegacyGreetingText ==
    <<"H", "e", "l", "l", "o", "!", " ", "A", "s", "k", " ", "m", "e", " ",
      "a", "n", "y", "t", "h", "i", "n", "g", " ", "a", "n", "d", " ", "I",
      "'", "l", "l", " ", "s", "e", "a", "r", "c", "h", " ", "f", "o", "r",
      " ", "a", "n", "s", "w", "e", "r", "s", ".">>

DontKnowMarker ==
    <<"I", " ", "d", "o", "n", "'", "t", " ", "k", "n", "o", "w">>

CantHelpMarker ==
    <<"I", " ", "c", "a", "n", "'", "t", " ", "h", "e", "l", "p">>

ErrorPrefix ==
    <<"E", "r", "r", "o", "r", ":", " ">>

LegacyErrorSuffix ==
    <<".", " ", "P", "l", "e", "a", "s", "e", " ", "t", "r", "y", " ", "a",
      "g", "a", "i", "n", ".">>

AIRequestFailedPrefix ==
    <<"A", "I", " ", "r", "e", "q", "u", "e", "s", "t", " ", "f", "a", "i",
      "l", "e", "d", ":", " ">>

AIResponseErrorPrefix ==
    <<"A", "I", " ", "r", "e", "s", "p", "o", "n", "s", "e", " ", "e", "r",
      "r", "o", "r", ":", " ">>

LegacyAIResponseErrorPrefix ==
    <<"F", "a", "i", "l", "e", "d", " ", "t", "o", " ", "f", "e", "t", "c",
      "h", " ", "A", "I", " ", "r", "e", "s", "p", "o", "n", "s", "e", ":",
      " ">>

SearchFailedPrefix ==
    <<"S", "e", "a", "r", "c", "h", " ", "f", "a", "i", "l", "e", "d", ":",
      " ">>

SearchNotOkText ==
    <<"F", "a", "i", "l", "e", "d", " ", "t", "o", " ", "f", "e", "t", "c",
      "h", " ", "s", "e", "a", "r", "c", "h", " ", "r", "e", "s", "u", "l",
      "t", "s">>

NoResultsText ==
    <<"N", "o", " ", "r", "e", "s", "u", "l", "t", "s", " ", "f", "o", "u",
      "n", "d">>

CaptionPrefix ==
    <<"H", "e", "r", "e", " ", "a", "r", "e", " ", "r", "e", "s", "u", "l",
      "t", "s", " ", "f", "o", "r", " ", "\"">>

LegacyCaptionPrefix ==
    <<"H", "e", "r", "e", " ", "a", "r", "e", " ", "t", "h", "e", " ", "r",
      "e", "s", "u", "l", "t", "s", " ", "f", "o", "r", " ", "\"">>

CaptionSuffix ==
    <<"\"", ":">>

FailedToFetch ==
    <<"F", "a", "i", "l", "e", "d", " ", "t", "o", " ", "f", "e", "t", "c",
      "h">>

(* -------------------------- string functions -------------------------- *)
Whitespace == {" ", "\n", "\t"}

RECURSIVE trimStart(_)
trimStart(s) ==
    IF s # <<>> /\ Head(s) \in Whitespace THEN trimStart(Tail(s)) ELSE s

RECURSIVE trimEnd(_)
trimEnd(s) ==
    IF s # <<>> /\ s[Len(s)] \in Whitespace
    THEN trimEnd(SubSeq(s, 1, Len(s) - 1))
    ELSE s

\* String.prototype.trim
trim(s) == trimEnd(trimStart(s))

\* String.prototype.includes
includes(s, sub) ==
    \E i \in 0..(Len(s) - Len(sub)) : SubSeq(s, i + 1, i + Len(sub)) = sub

DigitChar == <<"0", "1", "2", "3", "4", "5", "6", "7", "8", "9">>

\* the decimal text a template literal gives a number
RECURSIVE numberToString(_)
numberToString(n) ==
    IF n < 10
    THEN <<DigitChar[n + 1]>>
    ELSE numberToString(n \div 10) \o <<DigitChar[(n % 10) + 1]>>

(* -------------------------- optional values --------------------------- *)
\* null / undefined / a missing entry
None == <<>>
Some(x) == <<x>>

(* -------------------------- storage ----------------------------------- *)
EXPIRATION_TIME == 24 * 60 * 60 * 1000

\* new Date(ms) and Date.prototype.getTime
NewDate(ms) == [time |-> ms]
getTime(date) == date.time

\* (mutant) the stored creation times are cut to whole seconds
saveMessagesToStorageSeconds(msgs, t) ==
    Some([messages |->
              [i \in 1..Len(msgs) |->
                  [msgs[i] EXCEPT
                      !.timestamp = (getTime(msgs[i].timestamp) \div 1000) * 1000]],
          timestamp |-> t,
          text |-> "json", messagesIs |-> "array", timestampIs |-> "number"])

\* saveMessagesToStorage: the entry written under CHAT_STORAGE_KEY
saveMessagesToStorage(msgs, t) ==
    Some([messages |->
              [i \in 1..Len(msgs) |->
                  [msgs[i] EXCEPT !.timestamp = getTime(msgs[i].timestamp)]],
          timestamp |-> t,
          text |-> "json", messagesIs |-> "array", timestampIs |-> "number"])

\* Date.now() - timestamp: a number, or NaN (None) when the parsed timestamp
\* is undefined or a text that is not a number
elapsed(storedData, t) ==
    IF storedData.timestampIs = "number"
    THEN Some(t - storedData.timestamp)
    ELSE None

\* (mutant) an entry exactly as old as the window is expired too
loadMessagesFromStorageInclusive(sto, t) ==
    IF sto = None
    THEN [result |-> None, storage |-> sto]
    ELSE LET storedData == sto[1] IN
         IF storedData.text # "json"
         THEN [result |-> None, storage |-> sto]
         ELSE IF /\ elapsed(storedData, t) # None
                 /\ elapsed(storedData, t)[1] >= EXPIRATION_TIME
         THEN [result |-> None, storage |-> None]
         ELSE IF storedData.messagesIs # "array"
         THEN [result |-> None, storage |-> sto]
         ELSE [result |->
                   Some([i \in 1..Len(storedData.messages) |->
                            [storedData.messages[i] EXCEPT
                                !.timestamp =
                                    NewDate(storedData.messages[i].timestamp)]]),
               storage |-> sto]

\* loadMessagesFromStorage: what it returns and the entry it leaves.
\* JSON.parse throws on a text that is not JSON and messages.map throws when
\* messages is undefined or not an array; the catch returns null and leaves
\* the entry.  A comparison with NaN is false, so an entry whose timestamp is
\* not a number is never expired.
loadMessagesFromStorage(sto, t) ==
    IF sto = None
    THEN [result |-> None, storage |-> sto]
    ELSE LET storedData == sto[1] IN
         IF storedData.text # "json"
         THEN [result |-> None, storage |-> sto]
         ELSE IF /\ elapsed(storedData, t) # None
                 /\ elapsed(storedData, t)[1] > EXPIRATION_TIME
         THEN [result |-> None, storage |-> None]
         ELSE IF storedData.messagesIs # "array"
         THEN [result |-> None, storage |-> sto]
         ELSE [result |->
                   Some([i \in 1..Len(storedData.messages) |->
                            [storedData.messages[i] EXCEPT
                                !.timestamp =
                                    NewDate(storedData.messages[i].timestamp)]]),
               storage |-> sto]

(* -------------------------- code blocks ------------------------------- *)
\* The grave accent cannot be written inside a string of this language, so
\* that one character is written by its code point.
Backtick == "U+0060"

Fence == <<Backtick, Backtick, Backtick>>

DefaultLanguage == <<"t", "e", "x", "t">>

\* \w
WordChars ==
    {"a", "b", "c", "d", "e", "f", "g", "h", "i", "j", "k", "l", "m", "n",
     "o", "p", "q", "r", "s", "t", "u", "v", "w", "x", "y", "z", "A", "B",
     "C", "D", "E", "F", "G", "H", "I", "J", "K", "L", "M", "N", "O", "P",
     "Q", "R", "S", "T", "U", "V", "W", "X", "Y", "Z", "0", "1", "2", "3",
     "4", "5", "6", "7", "8", "9", "_"}

FenceAt(str, i) ==
    /\ i >= 1
    /\ i + 2 <= Len(str)
    /\ SubSeq(str, i, i + 2) = Fence

\* the position where a greedy run of characters of a class, begun at
\* position i, stops
runEnd(str, i, class) ==
    LET stops == {k \in i..(Len(str) + 1) :
                     k = Len(str) + 1 \/ str[k] \notin class}
    IN  CHOOSE k \in stops : \A m \in stops : k <= m

\* String.prototype.slice(start, end), indices counted from 0
sliceString(str, start, end) == SubSeq(str, start + 1, end)

\* /```(\w+)?\s*([\s\S]*?)```/g matched from lastIndex on: the leftmost
\* opening fence after which, past the word run and the white space, a
\* fence occurs; the body runs to the first such fence.  The groups: lang
\* (undefined, None, when no word character follows the fence) and code.
codeBlockRegex(str, lastIndex) ==
    LET bodyStart(s) == runEnd(str, runEnd(str, s + 3, WordChars), Whitespace)
        closings(s) == {j \in bodyStart(s)..Len(str) : FenceAt(str, j)}
        openings == {s \in (lastIndex + 1)..Len(str) :
                        FenceAt(str, s) /\ closings(s) # {}}
    IN  IF openings = {}
        THEN None
        ELSE LET s == CHOOSE o \in openings : \A m \in openings : o <= m
                 w == runEnd(str, s + 3, WordChars)
                 j == CHOOSE c \in closings(s) : \A m \in closings(s) : c <= m
             IN  Some([offset |-> s - 1,
                       match |-> SubSeq(str, s, j + 2),
                       lang |-> IF w > s + 3
                                THEN Some(SubSeq(str, s + 3, w - 1))
                                ELSE None,
                       code |-> SubSeq(str, bodyStart(s), j - 1)])

\* the parts pushed: {type: 'text', content} and {type: 'code', language,
\* content}
textPart(content) ==
    [type |-> "text", language |-> None, content |-> content]

\* (mutant) the body is kept as matched
codePartUntrimmed(lang, code) ==
    [type |-> "code",
     language |-> Some(IF lang # None THEN lang[1] ELSE DefaultLanguage),
     content |-> code]

codePart(lang, code) ==
    [type |-> "code",
     language |-> Some(IF lang # None THEN lang[1] ELSE DefaultLanguage),
     content |-> trim(code)]

\* (mutant) the text before a match is pushed even when there is none
replacerNoOffsetTest(str, lastIndex, pushed, m) ==
    Append(Append(pushed, textPart(sliceString(str, lastIndex, m.offset))),
           codePart(m.lang, m.code))

\* the callback given to text.replace, for one match
replacer(str, lastIndex, pushed, m) ==
    LET before == IF m.offset > lastIndex
                  THEN Append(pushed,
                              textPart(sliceString(str, lastIndex, m.offset)))
                  ELSE pushed
    IN  Append(before, codePart(m.lang, m.code))

\* text.replace(codeBlockRegex, callback): the callback runs on every match,
\* left to right, each search starting where the previous match ended
RECURSIVE replace(_, _, _)
replace(str, lastIndex, pushed) ==
    LET found == codeBlockRegex(str, lastIndex) IN
    IF found = None
    THEN [parts |-> pushed, lastIndex |-> lastIndex]
    ELSE replace(str, found[1].offset + Len(found[1].match),
                 replacer(str, lastIndex, pushed, found[1]))

\* (mutant) the rest of the text is pushed without the length test
detectCodeBlocksAlwaysRest(str) ==
    LET done == replace(str, 0, <<>>) IN
    Append(done.parts, textPart(sliceString(str, done.lastIndex, Len(str))))

detectCodeBlocks(str) ==
    LET done == replace(str, 0, <<>>) IN
    IF done.lastIndex < Len(str)
    THEN Append(done.parts,
                textPart(sliceString(str, done.lastIndex, Len(str))))
    ELSE done.parts

(* -------------------------- messages ---------------------------------- *)
greeting(v, t) ==
    [type |-> "ai",
     content |-> IF v = "legacy" THEN LegacyGreetingText ELSE GreetingText,
     timestamp |-> NewDate(t),
     showTime |-> FALSE,
     searchResults |-> None]

userMessage(trimmedInput, t) ==
    [type |-> "user", content |-> trimmedInput, timestamp |-> NewDate(t),
     showTime |-> FALSE, searchResults |-> None]

aiDirectResponse(aiResponse, t) ==
    [type |-> "ai", content |-> aiResponse, timestamp |-> NewDate(t),
     showTime |-> FALSE, searchResults |-> None]

\* directAnswer || `Here are results for "${trimmedInput}":`
aiWebResponse(v, trimmedInput, directAnswer, results, t) ==
    [type |-> "ai",
     content |->
         IF v = "legacy"
         THEN LegacyCaptionPrefix \o trimmedInput \o CaptionSuffix
         ELSE IF directAnswer # None /\ directAnswer[1] # <<>>
              THEN directAnswer[1]
              ELSE CaptionPrefix \o trimmedInput \o CaptionSuffix,
     timestamp |-> NewDate(t),
     showTime |-> FALSE,
     searchResults |-> Some(results)]

\* (mutant) the catch block appends the bare message
errorMessageBare(v, message, t) ==
    [type |-> "ai", content |-> message, timestamp |-> NewDate(t),
     showTime |-> FALSE, searchResults |-> None]

\* the message appended by the catch block
errorMessage(v, message, t) ==
    [type |-> "ai",
     content |->
         IF v = "legacy"
         THEN ErrorPrefix \o message \o LegacyErrorSuffix
         ELSE ErrorPrefix \o message,
     timestamp |-> NewDate(t),
     showTime |-> FALSE,
     searchResults |-> None]

(* -------------------------- collaborators ----------------------------- *)
\* What fetch can bring back from the generation collaborator: a rejected
\* fetch (fault), a non-success status, or a body whose first generation
\* is text.
HiThere == <<" ", "H", "i", " ", "t", "h", "e", "r", "e", "!", "\n">>
SorryCantHelp == <<"S", "o", "r", "r", "y", ",", " ">> \o CantHelpMarker \o <<".">>

GenerationResponse(fault, ok, status, text) ==
    [fault |-> fault, reason |-> IF fault THEN FailedToFetch ELSE <<>>,
     ok |-> ok, status |-> status, statusText |-> <<>>, text |-> text]

GenerationResponses ==
    { GenerationResponse(TRUE, FALSE, 0, <<>>),
      GenerationResponse(FALSE, FALSE, 500, <<>>),
      GenerationResponse(FALSE, TRUE, 200, HiThere),
      GenerationResponse(FALSE, TRUE, 200, DontKnowMarker),
      GenerationResponse(FALSE, TRUE, 200, SorryCantHelp) }

\* askAI: the text it returns, or the message of the Error it throws
askAI(v, response) ==
    IF response.fault
    THEN [threw |-> TRUE, value |-> AIRequestFailedPrefix \o response.reason]
    ELSE IF ~response.ok
    THEN [threw |-> TRUE,
          value |->
              AIRequestFailedPrefix \o
              (IF v = "legacy"
               THEN LegacyAIResponseErrorPrefix
                        \o numberToString(response.status)
                        \o <<" ">> \o response.statusText
               ELSE AIResponseErrorPrefix \o numberToString(response.status))]
    ELSE [threw |-> FALSE, value |-> trim(response.text)]

\* Items of the search collaborator; an item holds more than the three
\* fields a result keeps.
Item(k) ==
    [title |-> <<"t", DigitChar[k + 1]>>,
     snippet |-> <<"s", DigitChar[k + 1]>>,
     link |-> <<"l", DigitChar[k + 1]>>,
     displayLink |-> <<"d", DigitChar[k + 1]>>]

KGDescription == <<"K", "G">>

SearchResponse(fault, ok, description, items) ==
    [fault |-> fault, reason |-> IF fault THEN FailedToFetch ELSE <<>>,
     ok |-> ok, description |-> description, items |-> items]

SearchResponses ==
    { SearchResponse(TRUE, FALSE, None, None),
      SearchResponse(FALSE, FALSE, None, None) }
    \cup
    { SearchResponse(FALSE, TRUE, d, it) :
        d \in {None, Some(<<>>), Some(KGDescription)},
        it \in {None, Some(<<>>), Some(<<Item(1), Item(2)>>),
                Some(<<Item(1), Item(2), Item(3), Item(4)>>)} }

\* (mutant) the whole list is kept
sliceAll(items, n) == items

\* Array.prototype.slice(0, n)
slice(items, n) == SubSeq(items, 1, IF Len(items) < n THEN Len(items) ELSE n)

\* searchGoogle: {directAnswer, results}, or the message of the Error thrown
searchGoogle(response) ==
    IF response.fault
    THEN [threw |-> TRUE, message |-> SearchFailedPrefix \o response.reason,
          directAnswer |-> None, results |-> <<>>]
    ELSE IF ~response.ok
    THEN [threw |-> TRUE, message |-> SearchFailedPrefix \o SearchNotOkText,
          directAnswer |-> None, results |-> <<>>]
    ELSE [threw |-> FALSE, message |-> <<>>,
          directAnswer |->
              IF response.description # None /\ response.description[1] # <<>>
              THEN response.description
              ELSE None,
          results |->
              IF response.items = None
              THEN <<>>
              ELSE LET first == slice(response.items[1], 3) IN
                   [k \in 1..Len(first) |->
                       [title |-> first[k].title,
                        snippet |-> first[k].snippet,
                        link |-> first[k].link]]]

(* -------------------------- the component ----------------------------- *)
Variants == {"current", "legacy"}

\* Values the input control can be given
InputValues == {<<>>, <<" ">>, <<" ", "q", "\n">>}

\* the suspended handleSubmit: its trimmedInput, the await it is at, and
\* aiResponse once askAI has returned
Call(trimmedInput, stage, aiResponse) ==
    [trimmedInput |-> trimmedInput, stage |-> stage, aiResponse |-> aiResponse]

without(seq, i) == SubSeq(seq, 1, i - 1) \o SubSeq(seq, i + 1, Len(seq))

\* (mutant) the effect saves only when the controller is Idle
useEffectOnlyWhenIdle(v, prevLength, prevLoading, msgs, loading, sto, t) ==
    IF v = "current" /\ ~loading
         /\ (Len(msgs) # prevLength \/ loading # prevLoading)
    THEN saveMessagesToStorage(msgs, t)
    ELSE sto

\* (mutant) the effect depends on messages.length alone
useEffectLengthOnly(v, prevLength, prevLoading, msgs, loading, sto, t) ==
    IF v = "current" /\ Len(msgs) # prevLength
    THEN saveMessagesToStorage(msgs, t)
    ELSE sto

\* (mutant) the effect has no dependency list and runs after every render
useEffectEveryRender(v, prevLength, prevLoading, msgs, loading, sto, t) ==
    IF v = "current"
    THEN saveMessagesToStorage(msgs, t)
    ELSE sto

\* The effect on [messages.length, isLoading]: the entry after the render
\* that follows a handler. prevLength, prevLoading are the dependencies of
\* the render before; sto is the entry as the handler left it. The legacy
\* effect only scrolls.
useEffect(v, prevLength, prevLoading, msgs, loading, sto, t) ==
    IF v = "current" /\ (Len(msgs) # prevLength \/ loading # prevLoading)
    THEN saveMessagesToStorage(msgs, t)
    ELSE sto

\* (mutant) the guard without the isLoading test
submitIgnoredBlankOnly(input, loading) == trim(input) = <<>>

\* (mutant) the guard on the untrimmed input
submitIgnoredUntrimmed(input, loading) == input = <<>> \/ loading

\* `if (!trimmedInput || isLoading) return;`
submitIgnored(input, loading) == trim(input) = <<>> \/ loading

\* (mutant) every completion is sent to the search
needsSearchAlways(aiResponse) == TRUE

\* the marker test that sends a completion to the search
needsSearch(aiResponse) ==
    includes(aiResponse, DontKnowMarker) \/ includes(aiResponse, CantHelpMarker)

Init ==
    /\ variant = "current"
    /\ mounted = FALSE
    /\ mounts = 0
    /\ now = 0
    /\ messages = <<>>
    /\ inputValue = <<>>
    /\ isLoading = FALSE
    /\ isSettingsOpen = FALSE
    /\ calls = <<>>
    /\ storage = None
    /\ lastOp = "init"
    /\ renderedText = <<>>
    /\ parts = None

\* Either variant of the component may be the one deployed.
InitVersions ==
    /\ variant \in Variants
    /\ mounted = FALSE
    /\ mounts = 0
    /\ now = 0
    /\ messages = <<>>
    /\ inputValue = <<>>
    /\ isLoading = FALSE
    /\ isSettingsOpen = FALSE
    /\ calls = <<>>
    /\ storage = None
    /\ lastOp = "init"
    /\ renderedText = <<>>
    /\ parts = None

\* What localStorage may hold under CHAT_STORAGE_KEY when it was not written
\* by saveMessagesToStorage: a text that is not JSON, or an object whose
\* messages and timestamp are each missing, a text, or of the expected kind.
ForeignLog ==
    <<[type |-> "ai", content |-> HiThere, timestamp |-> 0,
       showTime |-> FALSE, searchResults |-> None]>>

ForeignEntries ==
    {[text |-> "garbage", messagesIs |-> "undefined", messages |-> <<>>,
      timestampIs |-> "undefined", timestamp |-> 0]}
    \cup
    {[text |-> "json",
      messagesIs |-> m, messages |-> IF m = "array" THEN ForeignLog ELSE <<>>,
      timestampIs |-> k, timestamp |-> 0] :
        m \in {"undefined", "string", "array"},
        k \in {"undefined", "string", "number"}}

\* The page is opened over whatever the key holds.
InitForeignStore ==
    /\ variant = "current"
    /\ mounted = FALSE
    /\ mounts = 0
    /\ now = 0
    /\ messages = <<>>
    /\ inputValue = <<>>
    /\ isLoading = FALSE
    /\ isSettingsOpen = FALSE
    /\ calls = <<>>
    /\ storage \in {None} \cup {Some(e) : e \in ForeignEntries}
    /\ lastOp = "init"
    /\ renderedText = <<>>
    /\ parts = None

\* Time passes: by a millisecond at any moment, or by the length of the
\* expiration window while the page is closed.
Tick(d) ==
    /\ \/ d = 1 /\ now % EXPIRATION_TIME < MaxMs
       \/ d = EXPIRATION_TIME /\ ~mounted /\ now \div EXPIRATION_TIME < MaxDays
    /\ now' = now + d
    /\ lastOp' = "other"
    /\ UNCHANGED <<variant, mounted, mounts, messages, inputValue, isLoading,
                   isSettingsOpen, calls, storage>>
    /\ UNCHANGED <<renderedText, parts>>

\* The page is opened: the useState initialisers run, then the first render
\* and its effect.
Mount ==
    /\ ~mounted
    /\ mounts < MaxMounts
    /\ LET loaded == IF variant = "current"
                     THEN loadMessagesFromStorage(storage, now)
                     ELSE [result |-> None, storage |-> storage]
           initial == IF loaded.result # None
                      THEN loaded.result[1]
                      ELSE <<greeting(variant, now)>>
       IN /\ messages' = initial
          /\ storage' = IF variant = "current"
                        THEN saveMessagesToStorage(initial, now)
                        ELSE loaded.storage
    /\ mounted' = TRUE
    /\ mounts' = mounts + 1
    /\ inputValue' = <<>>
    /\ isLoading' = FALSE
    /\ isSettingsOpen' = FALSE
    /\ calls' = <<>>
    /\ lastOp' = IF variant = "legacy" \/ storage = None
                  THEN "mount:fresh"
                  ELSE IF loadMessagesFromStorage(storage, now).result # None
                       THEN "mount:restored"
                       ELSE IF loadMessagesFromStorage(storage, now).storage = None
                            THEN "mount:expired"
                            ELSE "mount:unreadable"
    /\ UNCHANGED <<variant, now>>
    /\ UNCHANGED <<renderedText, parts>>

\* The page is closed or reloaded: the component state and the pending
\* requests are gone, the stored entry stays.
Unload ==
    /\ mounted
    /\ mounted' = FALSE
    /\ messages' = <<>>
    /\ inputValue' = <<>>
    /\ isLoading' = FALSE
    /\ isSettingsOpen' = FALSE
    /\ calls' = <<>>
    /\ lastOp' = "other"
    /\ UNCHANGED <<variant, mounts, now, storage>>
    /\ UNCHANGED <<renderedText, parts>>

\* onChange of the input control. The handler itself has no guard; that the
\* view disables the control while isLoading is not relied on.
onChange(value) ==
    /\ mounted
    /\ inputValue' = value
    /\ lastOp' = "other"
    /\ UNCHANGED <<variant, mounted, mounts, now, messages, isLoading,
                   isSettingsOpen, calls, storage>>
    /\ UNCHANGED <<renderedText, parts>>

\* handleSubmit up to its first await. MaxLog bounds the questions an Idle
\* controller takes: a question and its answers add up to three messages.
handleSubmit ==
    /\ mounted
    /\ LET trimmedInput == trim(inputValue) IN
       IF submitIgnored(inputValue, isLoading)
       THEN /\ lastOp' = "submit:ignored"
            /\ UNCHANGED <<messages, inputValue, isLoading, calls, storage>>
       ELSE /\ isLoading \/ Len(messages) + 3 <= MaxLog
            /\ messages' = Append(messages, userMessage(trimmedInput, now))
            /\ inputValue' = <<>>
            /\ isLoading' = TRUE
            /\ calls' = Append(calls, Call(trimmedInput, "askAI", <<>>))
            /\ storage' = useEffect(variant, Len(messages), isLoading,
                                    messages', TRUE, storage, now)
            /\ lastOp' = "submit:accepted"
    /\ UNCHANGED <<variant, mounted, mounts, now, isSettingsOpen>>
    /\ UNCHANGED <<renderedText, parts>>

\* (mutant) the flag is reset after the try block instead of in a finally,
\* so a failed completion leaves it set
askAIResolvedNoFinally(i, response) ==
    /\ mounted
    /\ i \in 1..Len(calls)
    /\ calls[i].stage = "askAI"
    /\ LET aiResponse == askAI(variant, response) IN
       IF aiResponse.threw
       THEN /\ messages' =
                  Append(messages, errorMessage(variant, aiResponse.value, now))
            /\ isLoading' = isLoading
            /\ calls' = without(calls, i)
            /\ lastOp' = "askAI:failed"
       ELSE /\ messages' =
                  Append(messages, aiDirectResponse(aiResponse.value, now))
            /\ IF needsSearch(aiResponse.value)
               THEN /\ isLoading' = isLoading
                    /\ calls' = [calls EXCEPT
                                    ![i] = Call(calls[i].trimmedInput,
                                                "searchGoogle",
                                                aiResponse.value)]
                    /\ lastOp' = "askAI:searching"
               ELSE /\ isLoading' = FALSE
                    /\ calls' = without(calls, i)
                    /\ lastOp' = "askAI:answered"
    /\ storage' = useEffect(variant, Len(messages), isLoading,
                            messages', isLoading', storage, now)
    /\ UNCHANGED <<variant, mounted, mounts, now, inputValue, isSettingsOpen>>
    /\ UNCHANGED <<renderedText, parts>>

\* handleSubmit resumed when askAI settles: the answer is appended and, on
\* a marker, searchGoogle is awaited; otherwise catch/finally run.
askAIResolved(i, response) ==
    /\ mounted
    /\ i \in 1..Len(calls)
    /\ calls[i].stage = "askAI"
    /\ LET aiResponse == askAI(variant, response) IN
       IF aiResponse.threw
       THEN /\ messages' =
                  Append(messages, errorMessage(variant, aiResponse.value, now))
            /\ isLoading' = FALSE
            /\ calls' = without(calls, i)
            /\ lastOp' = "askAI:failed"
       ELSE /\ messages' =
                  Append(messages, aiDirectResponse(aiResponse.value, now))
            /\ IF needsSearch(aiResponse.value)
               THEN /\ isLoading' = isLoading
                    /\ calls' = [calls EXCEPT
                                    ![i] = Call(calls[i].trimmedInput,
                                                "searchGoogle",
                                                aiResponse.value)]
                    /\ lastOp' = "askAI:searching"
               ELSE /\ isLoading' = FALSE
                    /\ calls' = without(calls, i)
                    /\ lastOp' = "askAI:answered"
    /\ storage' = useEffect(variant, Len(messages), isLoading,
                            messages', isLoading', storage, now)
    /\ UNCHANGED <<variant, mounted, mounts, now, inputValue, isSettingsOpen>>
    /\ UNCHANGED <<renderedText, parts>>

\* (mutant) the results message is appended whatever the list holds
hasResultsAlways(results) == TRUE

\* results.length > 0
hasResults(results) == Len(results) > 0

\* handleSubmit resumed when searchGoogle settles
searchGoogleResolved(i, response) ==
    /\ mounted
    /\ i \in 1..Len(calls)
    /\ calls[i].stage = "searchGoogle"
    /\ LET found == searchGoogle(response)
           trimmedInput == calls[i].trimmedInput
       IN IF found.threw
          THEN /\ messages' =
                     Append(messages, errorMessage(variant, found.message, now))
               /\ lastOp' = "search:failed"
          ELSE IF hasResults(found.results)
          THEN /\ messages' =
                     Append(messages,
                            aiWebResponse(variant, trimmedInput,
                                          found.directAnswer, found.results,
                                          now))
               /\ lastOp' = "search:results"
          ELSE IF variant = "legacy"
          THEN /\ messages' =
                     Append(messages, errorMessage(variant, NoResultsText, now))
               /\ lastOp' = "search:empty"
          ELSE /\ messages' = messages
               /\ lastOp' = "search:empty"
    /\ isLoading' = FALSE
    /\ calls' = without(calls, i)
    /\ storage' = useEffect(variant, Len(messages), isLoading,
                            messages', FALSE, storage, now)
    /\ UNCHANGED <<variant, mounted, mounts, now, inputValue, isSettingsOpen>>
    /\ UNCHANGED <<renderedText, parts>>

expanded(msgs) == {k \in 1..Len(msgs) : msgs[k].showTime}

\* (mutant) showing the time also stamps the message anew
toggleTimeVisibilityRestamps(index) ==
    /\ mounted
    /\ index \in 1..Len(messages)
    /\ messages[index].showTime \/ Cardinality(expanded(messages)) < MaxExpanded
    /\ messages' = [messages EXCEPT ![index].showTime = ~messages[index].showTime,
                                    ![index].timestamp = NewDate(now)]
    /\ storage' = useEffect(variant, Len(messages), isLoading,
                            messages', isLoading, storage, now)
    /\ lastOp' = "other"
    /\ UNCHANGED <<variant, mounted, mounts, now, inputValue, isLoading,
                   isSettingsOpen, calls>>
    /\ UNCHANGED <<renderedText, parts>>

toggleTimeVisibility(index) ==
    /\ mounted
    /\ index \in 1..Len(messages)
    /\ messages[index].showTime \/ Cardinality(expanded(messages)) < MaxExpanded
    /\ messages' = [messages EXCEPT ![index].showTime = ~messages[index].showTime]
    /\ storage' = useEffect(variant, Len(messages), isLoading,
                            messages', isLoading, storage, now)
    /\ lastOp' = "other"
    /\ UNCHANGED <<variant, mounted, mounts, now, inputValue, isLoading,
                   isSettingsOpen, calls>>
    /\ UNCHANGED <<renderedText, parts>>

\* the Settings button and the dialog's backdrop (current variant only)
openSettings ==
    /\ mounted
    /\ variant = "current"
    /\ ~isSettingsOpen
    /\ isSettingsOpen' = TRUE
    /\ lastOp' = "other"
    /\ UNCHANGED <<variant, mounted, mounts, now, messages, inputValue,
                   isLoading, calls, storage>>
    /\ UNCHANGED <<renderedText, parts>>

closeSettings ==
    /\ mounted
    /\ isSettingsOpen
    /\ isSettingsOpen' = FALSE
    /\ lastOp' = "other"
    /\ UNCHANGED <<variant, mounted, mounts, now, messages, inputValue,
                   isLoading, calls, storage>>
    /\ UNCHANGED <<renderedText, parts>>
\* (mutant) clearing also puts the controller back to Idle
clearChatHistoryResetsLoading ==
    /\ mounted
    /\ isSettingsOpen
    /\ messages' = <<greeting(variant, now)>>
    /\ isSettingsOpen' = FALSE
    /\ isLoading' = FALSE
    /\ storage' = useEffect(variant, Len(messages), isLoading,
                            messages', FALSE, None, now)
    /\ lastOp' = "clear"
    /\ UNCHANGED <<variant, mounted, mounts, now, inputValue, calls>>
    /\ UNCHANGED <<renderedText, parts>>

\* (mutant) clearing leaves an empty log
clearChatHistoryEmptiesLog ==
    /\ mounted
    /\ isSettingsOpen
    /\ messages' = <<>>
    /\ isSettingsOpen' = FALSE
    /\ storage' = useEffect(variant, Len(messages), isLoading,
                            messages', isLoading, None, now)
    /\ lastOp' = "clear"
    /\ UNCHANGED <<variant, mounted, mounts, now, inputValue, isLoading, calls>>
    /\ UNCHANGED <<renderedText, parts>>

\* clearChatHistory, the dialog's button, with the render and effect after it
clearChatHistory ==
    /\ mounted
    /\ isSettingsOpen
    /\ messages' = <<greeting(variant, now)>>
    /\ isSettingsOpen' = FALSE
    /\ storage' = useEffect(variant, Len(messages), isLoading,
                            messages', isLoading, None, now)
    /\ lastOp' = "clear"
    /\ UNCHANGED <<variant, mounted, mounts, now, inputValue, isLoading, calls>>
    /\ UNCHANGED <<renderedText, parts>>

Next ==
    \/ \E d \in {1, EXPIRATION_TIME} : Tick(d)
    \/ Mount
    \/ Unload
    \/ \E value \in InputValues : onChange(value)
    \/ handleSubmit
    \/ \E i \in 1..Len(calls), response \in GenerationResponses :
           askAIResolved(i, response)
    \/ \E i \in 1..Len(calls), response \in SearchResponses :
           searchGoogleResolved(i, response)
    \/ \E index \in 1..Len(messages) : toggleTimeVisibility(index)
    \/ openSettings
    \/ closeSettings
    \/ clearChatHistory

Spec == Init /\ [][Next]_vars

SpecVersions == InitVersions /\ [][Next]_vars

SpecForeignStore == InitForeignStore /\ [][Next]_vars

\* Every request that has been issued settles: fetch resolves or rejects,
\* and the suspended handleSubmit is resumed.
SpecSettling ==
    /\ Init
    /\ [][Next]_vars
    /\ WF_vars(\E i \in 1..Len(calls), response \in GenerationResponses :
                   askAIResolved(i, response))
    /\ WF_vars(\E i \in 1..Len(calls), response \in SearchResponses :
                   searchGoogleResolved(i, response))

(* -------------------------- detectCodeBlocks alone -------------------- *)
\* The texts handed to detectCodeBlocks: every text of at most MaxTokens
\* pieces, a piece being a fence, a lone grave accent, a word character, a
\* blank or a line break; and the text "a ```js\ncode\n``` b".
MaxTokens == 7

Tokens == {Fence, <<Backtick>>, <<"j">>, <<" ">>, <<"\n">>}

RECURSIVE TextsOf(_)
TextsOf(n) ==
    IF n = 0
    THEN {<<>>}
    ELSE LET shorter == TextsOf(n - 1) IN
         shorter \cup {s \o token : s \in shorter, token \in Tokens}

ExampleText ==
    <<"a", " ">> \o Fence \o <<"j", "s", "\n", "c", "o", "d", "e", "\n">>
    \o Fence \o <<" ", "b">>

Texts == TextsOf(MaxTokens) \cup {ExampleText}

InitSegmenter ==
    /\ variant = "current"
    /\ mounted = FALSE
    /\ mounts = 0
    /\ now = 0
    /\ messages = <<>>
    /\ inputValue = <<>>
    /\ isLoading = FALSE
    /\ isSettingsOpen = FALSE
    /\ calls = <<>>
    /\ storage = None
    /\ lastOp = "init"
    /\ renderedText \in Texts
    /\ parts = None

\* the view calls detectCodeBlocks on the text and maps over what it returns
renderParts ==
    /\ parts = None
    /\ parts' = Some(detectCodeBlocks(renderedText))
    /\ lastOp' = "other"
    /\ UNCHANGED <<variant, mounted, mounts, now, messages, inputValue,
                   isLoading, isSettingsOpen, calls, storage, renderedText>>

NextSegmenter == renderParts

SpecSegmenter == InitSegmenter /\ [][NextSegmenter]_vars

(* ====================== properties of the component ==================== *)
IsBlank(s) == \A k \in 1..Len(s) : s[k] \in Whitespace

IsPrefix(p, s) == Len(p) <= Len(s) /\ SubSeq(s, 1, Len(p)) = p

Last(seq) == seq[Len(seq)]

HasMarker(text) ==
    includes(text, DontKnowMarker) \/ includes(text, CantHelpMarker)

TwentyFourHours == 24 * 3600 * 1000

\* the stored form of a log: every field equal, timestamps as epoch-millis
StoredEquals(stored, msgs) ==
    /\ Len(stored) = Len(msgs)
    /\ \A k \in 1..Len(msgs) :
          /\ stored[k].type = msgs[k].type
          /\ stored[k].content = msgs[k].content
          /\ stored[k].timestamp = msgs[k].timestamp.time
          /\ stored[k].showTime = msgs[k].showTime
          /\ stored[k].searchResults = msgs[k].searchResults

\* the same, the showTime flags left aside
StoredMirrors(stored, msgs) ==
    /\ Len(stored) = Len(msgs)
    /\ \A k \in 1..Len(msgs) :
          /\ stored[k].type = msgs[k].type
          /\ stored[k].content = msgs[k].content
          /\ stored[k].timestamp = msgs[k].timestamp.time
          /\ stored[k].searchResults = msgs[k].searchResults

Completed ==
    {"askAI:answered", "askAI:failed", "search:results", "search:empty",
     "search:failed"}

\* C1: a submission attempted while isLoading, with a non-blank input,
\* changes neither the log nor the loading flag nor the stored entry and
\* starts no call; at most one handleSubmit is ever suspended at an await.
C1_SubmitWhileLoadingIsNoOp ==
    /\ [](Len(calls) <= 1)
    /\ [][(handleSubmit /\ isLoading /\ ~IsBlank(inputValue))
            => UNCHANGED <<messages, isLoading, calls, storage, inputValue>>]_vars

C1_Witness ==
    /\ lastOp = "submit:ignored"
    /\ isLoading
    /\ ~IsBlank(inputValue)
    /\ Len(calls) = 1
    /\ Last(messages).type = "user"

\* C2 (as stated): after clearHistory and the effect it triggers, the log
\* is the one seeded greeting and the store holds no entry.
C2_ClearLeavesNoEntry ==
    lastOp = "clear" =>
        /\ messages = <<greeting("current", now)>>
        /\ storage = None

\* C3 (as stated): a stored snapshot never ends in a user message.
C3_SnapshotNeverEndsInUserMessage ==
    (storage # None /\ storage[1].messages # <<>>) =>
        Last(storage[1].messages).type # "user"

\* C3 (amended): while the component is mounted, a stored snapshot holds
\* the current log, message for message (type, content, timestamp and
\* searchResults), also while isLoading; so it ends in a user message
\* exactly when the log does.
C3_SnapshotMirrorsLog ==
    (mounted /\ storage # None) => StoredMirrors(storage[1].messages, messages)

C3_Witness ==
    /\ mounted
    /\ isLoading
    /\ storage # None
    /\ Last(storage[1].messages).type = "user"
    /\ \E k \in 1..Len(messages) : messages[k].showTime

\* C4 (as stated): in the first session, whenever the controller is Idle
\* the log is the greeting followed by groups of one user message and one
\* or two assistant messages.
WellGrouped(msgs) ==
    /\ msgs # <<>>
    /\ msgs[1].type = "ai"
    /\ msgs[1].content = GreetingText
    /\ \A k \in 2..Len(msgs) :
          IF msgs[k].type = "user"
          THEN k < Len(msgs) /\ msgs[k + 1].type = "ai"
          ELSE \/ k >= 3 /\ msgs[k - 1].type = "user"
               \/ k >= 4 /\ msgs[k - 1].type = "ai" /\ msgs[k - 2].type = "user"

C4_IdleLogIsWellGrouped ==
    (mounted /\ mounts = 1 /\ ~isLoading) => WellGrouped(messages)

\* C5: when an accepted submission has completed, whatever the outcome, the
\* controller is Idle and the stored snapshot holds the full current log,
\* saved at the current time.
C5_CompletionPersistsFullLog ==
    lastOp \in Completed =>
        /\ ~isLoading
        /\ calls = <<>>
        /\ storage # None
        /\ StoredEquals(storage[1].messages, messages)
        /\ storage[1].timestamp = now

C5_Witness ==
    /\ lastOp = "search:empty"
    /\ ~isLoading
    /\ storage # None
    /\ Len(messages) = 3
    /\ messages[2].showTime

\* C6: when askAI or searchGoogle throws, the step appends exactly one
\* assistant message, "Error: " followed by a description that holds the
\* reason of the fault, after the messages already in the log, and the
\* controller is Idle with nothing left in flight.
C6_FailureAppendsOneErrorMessage ==
    [][lastOp' \in {"askAI:failed", "search:failed"} =>
          /\ Len(messages') = Len(messages) + 1
          /\ SubSeq(messages', 1, Len(messages)) = messages
          /\ Last(messages').type = "ai"
          /\ Last(messages').searchResults = None
          /\ IsPrefix(ErrorPrefix, Last(messages').content)
          /\ \/ includes(Last(messages').content, FailedToFetch)
             \/ includes(Last(messages').content, <<"5", "0", "0">>)
          /\ ~isLoading'
          /\ calls' = <<>>]_vars

C6_Witness ==
    /\ lastOp = "search:failed"
    /\ Len(messages) = 4
    /\ messages[2].type = "user"
    /\ messages[3].type = "ai"
    /\ IsPrefix(ErrorPrefix, messages[4].content)
    /\ ~isLoading

\* C7: an accepted submission appends one user message; when askAI returns
\* a completion without a marker, the step appends one assistant message
\* with that text, leaves nothing in flight and returns to Idle; a call is
\* at the searchGoogle await only with a completion that holds a marker.
C7_SearchOnlyOnMarker ==
    /\ [](\A i \in 1..Len(calls) :
              calls[i].stage = "searchGoogle" =>
                  /\ HasMarker(calls[i].aiResponse)
                  /\ isLoading)
    /\ [][/\ lastOp' = "submit:accepted" =>
                /\ Len(messages') = Len(messages) + 1
                /\ SubSeq(messages', 1, Len(messages)) = messages
                /\ Last(messages').type = "user"
          /\ \A i \in 1..Len(calls), r \in GenerationResponses :
                (/\ ~r.fault
                 /\ r.ok
                 /\ ~HasMarker(r.text)
                 /\ askAIResolved(i, r)) =>
                    /\ Len(messages') = Len(messages) + 1
                    /\ SubSeq(messages', 1, Len(messages)) = messages
                    /\ Last(messages').type = "ai"
                    /\ Last(messages').content = trim(r.text)
                    /\ Last(messages').searchResults = None
                    /\ calls' = <<>>
                    /\ ~isLoading']_vars

C7_Witness ==
    /\ lastOp = "askAI:answered"
    /\ Len(messages) = 3
    /\ messages[2].type = "user"
    /\ messages[3].type = "ai"
    /\ ~HasMarker(messages[3].content)
    /\ calls = <<>>

\* C8 (as stated): when searchGoogle returns at least one result, the step
\* appends one assistant message that carries the first three results and
\* whose content is the directAnswer when there is one and otherwise
\* `Here are results for "<query>":`.
C8_ResultsMessage ==
    [][\A i \in 1..Len(calls), r \in SearchResponses :
          (/\ ~r.fault
           /\ r.ok
           /\ r.items # None
           /\ r.items[1] # <<>>
           /\ searchGoogleResolved(i, r)) =>
              /\ Len(messages') = Len(messages) + 1
              /\ SubSeq(messages', 1, Len(messages)) = messages
              /\ Last(messages').type = "ai"
              /\ Last(messages').searchResults # None
              /\ Len(Last(messages').searchResults[1]) \in 1..3
              /\ Last(messages').content =
                    IF r.description # None /\ r.description[1] # <<>>
                    THEN r.description[1]
                    ELSE CaptionPrefix \o calls[i].trimmedInput \o CaptionSuffix]_vars

\* C9: a submission whose input is empty or whitespace-only changes
\* neither the log, the loading flag, the stored entry nor the input, and
\* starts no call.
C9_BlankSubmitIsNoOp ==
    [][(handleSubmit /\ IsBlank(inputValue))
          => UNCHANGED <<messages, isLoading, calls, storage, inputValue>>]_vars

C9_Witness ==
    /\ lastOp = "submit:ignored"
    /\ ~isLoading
    /\ inputValue = <<" ">>
    /\ storage # None

\* C10: load on an entry saved more than 24 hours before now returns
\* nothing and deletes the entry, so that a second load returns nothing
\* too, and the page then starts from the greeting; an entry saved at most
\* 24 hours before now is returned, message for message, and left in place.
C10_LoadExpiresAfterWindow ==
    /\ [](storage # None =>
            LET first == loadMessagesFromStorage(storage, now) IN
            IF now - storage[1].timestamp > TwentyFourHours
            THEN /\ first.result = None
                 /\ first.storage = None
                 /\ loadMessagesFromStorage(first.storage, now).result = None
            ELSE /\ first.result # None
                 /\ StoredEquals(storage[1].messages, first.result[1])
                 /\ first.storage = storage)
    /\ [][(Mount /\ storage # None) =>
            IF now - storage[1].timestamp > TwentyFourHours
            THEN messages' = <<greeting("current", now)>>
            ELSE StoredEquals(storage[1].messages, messages')]_vars

C10_Witness ==
    /\ lastOp = "mount:expired"
    /\ mounts = 2
    /\ now > TwentyFourHours
    /\ messages = <<greeting("current", now)>>
    /\ storage # None
    /\ storage[1].timestamp = now

(* ---------------------------------------------------------------------- *)
\* two logs with the same messages in the same order, field by field
SameLog(a, b) ==
    /\ Len(a) = Len(b)
    /\ \A k \in 1..Len(b) :
          /\ a[k].type = b[k].type
          /\ a[k].content = b[k].content
          /\ a[k].searchResults = b[k].searchResults
          /\ a[k].showTime = b[k].showTime
          /\ a[k].timestamp.time = b[k].timestamp.time

\* the clock readings at which an entry saved now is still inside the window
LoadTimes == {now, now + 1, now + TwentyFourHours}

\* C11: for every log the controller reaches, saving it and loading the
\* saved entry at any time inside the expiration window (its last
\* millisecond included) gives back the same messages in the same order,
\* with type, content, searchResults and showTime equal and every timestamp
\* equal to the millisecond; the load leaves the entry in place.
C11_SaveLoadRoundTrip ==
    mounted =>
        \A t \in LoadTimes :
            LET saved == saveMessagesToStorage(messages, now)
                loaded == loadMessagesFromStorage(saved, t)
            IN  /\ loaded.result # None
                /\ SameLog(loaded.result[1], messages)
                /\ loaded.storage = saved

\* a log of four messages, one with search results, one with its time shown,
\* with two different creation times, that a mount has read back from storage
C11_Witness ==
    /\ lastOp = "mount:restored"
    /\ Len(messages) = 4
    /\ \E k \in 1..4 : messages[k].searchResults # None
    /\ \E k \in 1..4 : messages[k].showTime
    /\ \E j, k \in 1..4 : messages[j].timestamp.time # messages[k].timestamp.time
    /\ C11_SaveLoadRoundTrip

(* ---------------------------------------------------------------------- *)
\* a stored value that is not a well-formed snapshot
Malformed(e) ==
    \/ e.text # "json"
    \/ e.messagesIs # "array"
    \/ e.timestampIs # "number"

\* C12: load fails soft: for a missing entry and for every malformed stored
\* entry (text that does not parse, messages missing or not a list, timestamp
\* missing or not a number) load returns absent, and the controller opened
\* over it starts with exactly the one seeded greeting.
C12_LoadFailsSoft ==
    [][(Mount /\ (storage = None \/ Malformed(storage[1]))) =>
          /\ loadMessagesFromStorage(storage, now).result = None
          /\ messages' = <<greeting("current", now)>>]_vars

(* ---------------------------------------------------------------------- *)
WithResults(msgs) == {k \in 1..Len(msgs) : msgs[k].searchResults # None}

\* result j of the list is item j of what the collaborator returned
FirstOf(results, items) ==
    /\ Len(results) = (IF Len(items) < 3 THEN Len(items) ELSE 3)
    /\ \A j \in 1..Len(results) :
          /\ results[j].title = items[j].title
          /\ results[j].snippet = items[j].snippet
          /\ results[j].link = items[j].link

\* C13: in every reachable state a message carrying searchResults is an
\* assistant message whose list holds between 1 and 3 results; within a
\* session such a message comes only from a search that returned results
\* (augmentation), and its list is the first results of the search
\* collaborator's answer, in the collaborator's order.
C13_SearchResultsFromAugmentation ==
    /\ [](\A k \in WithResults(messages) :
            /\ messages[k].type = "ai"
            /\ Len(messages[k].searchResults[1]) \in 1..3)
    /\ [][(mounted /\
           Cardinality(WithResults(messages')) >
               Cardinality(WithResults(messages))) =>
            /\ lastOp' = "search:results"
            /\ Len(messages') = Len(messages) + 1
            /\ WithResults(messages') =
                   WithResults(messages) \cup {Len(messages')}]_vars
    /\ [][\A i \in 1..Len(calls), response \in SearchResponses :
            (searchGoogleResolved(i, response) /\ lastOp' = "search:results") =>
                /\ response.ok
                /\ response.items # None
                /\ FirstOf(Last(messages').searchResults[1],
                           response.items[1])]_vars

\* a search that returned more than three items has put its first three,
\* in order, on the message it appended
C13_Witness ==
    /\ lastOp = "search:results"
    /\ Last(messages).searchResults # None
    /\ Len(Last(messages).searchResults[1]) = 3
    /\ \A j \in 1..3 : Last(messages).searchResults[1][j].title = Item(j).title

(* ====================== properties of detectCodeBlocks ================= *)
\* positions at which a fence stands in a text
FencePositions(str) == {i \in 1..Len(str) : FenceAt(str, i)}

\* a closed fence: an opening fence and, after it without overlap, a closing
\* one
ClosedFences(str) ==
    {<<i, j>> \in FencePositions(str) \X FencePositions(str) : j >= i + 3}

\* C14: for every input that contains no fence (no opening fence with a
\* closing fence after it), detectCodeBlocks returns exactly one text part
\* whose content is the input, and for the empty input the empty sequence.
C14_NoFenceOneTextPart ==
    (parts # None /\ ClosedFences(renderedText) = {}) =>
        IF renderedText = <<>>
        THEN parts[1] = <<>>
        ELSE /\ Len(parts[1]) = 1
             /\ parts[1][1].type = "text"
             /\ parts[1][1].content = renderedText

\* a text with an opening fence that is never closed has been segmented
C14_Witness ==
    /\ parts # None
    /\ renderedText = Fence \o <<"j", "\n", "j">>
    /\ parts[1] = <<textPart(renderedText)>>

(* ---------------------------------------------------------------------- *)
\* the messages of log a are still in log b, at the same positions, with
\* type, content and timestamp as they were
KeepsMessages(a, b) ==
    /\ Len(b) >= Len(a)
    /\ \A k \in 1..Len(a) :
          /\ b[k].type = a[k].type
          /\ b[k].content = a[k].content
          /\ b[k].timestamp = a[k].timestamp

\* C15: every action on the open page other than clear history is
\* append-only on the log: the messages present before it remain, in the
\* same positions, with type, content and creation timestamp unchanged, and
\* the log does not get shorter.
C15_AppendOnlyExceptClear ==
    [][(mounted /\ mounted' /\ lastOp' # "clear") =>
          KeepsMessages(messages, messages')]_vars

\* an answer has been appended one millisecond or more after the question,
\* and a time is shown: submit, resolution and toggle have all acted
C15_Witness ==
    /\ lastOp = "other"
    /\ ~isLoading
    /\ Len(messages) >= 3
    /\ messages[3].timestamp.time > messages[2].timestamp.time
    /\ \E k \in 1..Len(messages) : messages[k].showTime
    /\ now > messages[3].timestamp.time

(* ---------------------------------------------------------------------- *)
\* C16: provided every issued collaborator call settles, every accepted
\* submission leads back to Idle: whatever toggles and clears are interleaved
\* with the request in flight, AwaitingResponse never lasts forever.
C16_LoadingEndsEventually == isLoading ~> ~isLoading

\* the history was cleared while the request was in flight, and the answer
\* still brought the controller back to Idle
C16_Witness ==
    /\ mounted
    /\ ~isLoading
    /\ lastOp = "askAI:answered"
    /\ Len(messages) = 2
    /\ messages[1].content = GreetingText
    /\ messages[2].type = "ai"

(* ---------------------------------------------------------------------- *)
\* a successful answer of the search collaborator that holds no result
ZeroResults(response) ==
    /\ ~response.fault
    /\ response.ok
    /\ response.items = None \/ response.items[1] = <<>>

\* C17: when the search succeeds with zero results, the submission ends
\* either with no message beyond the answer or with exactly one assistant
\* error message, and the controller is Idle; no message carrying an empty
\* result list is ever appended.
C17_ZeroResultsOutcome ==
    /\ [][\A i \in 1..Len(calls), response \in SearchResponses :
            (ZeroResults(response) /\ searchGoogleResolved(i, response)) =>
                /\ ~isLoading'
                /\ \/ messages' = messages
                   \/ /\ Len(messages') = Len(messages) + 1
                      /\ SubSeq(messages', 1, Len(messages)) = messages
                      /\ Last(messages').type = "ai"
                      /\ IsPrefix(ErrorPrefix, Last(messages').content)
                      /\ Last(messages').searchResults = None]_vars
    /\ [](\A k \in 1..Len(messages) :
            messages[k].searchResults # None =>
                messages[k].searchResults[1] # <<>>)

\* a search without results has ended the submission of the current
\* component silently
C17_Witness ==
    /\ lastOp = "search:empty"
    /\ variant = "current"
    /\ ~isLoading
    /\ Len(messages) = 3
    /\ HasMarker(Last(messages).content)

(* ---------------------------------------------------------------------- *)
\* the first closed fence of a text: the leftmost opening fence that has a
\* closing fence after it, and the nearest such closing fence
FirstClosedFence(str) ==
    LET i == CHOOSE o \in {f[1] : f \in ClosedFences(str)} :
                 \A f \in ClosedFences(str) : o <= f[1]
        j == CHOOSE c \in {f[2] : f \in ClosedFences(str)} :
                 /\ <<i, c>> \in ClosedFences(str)
                 /\ \A f \in ClosedFences(str) : f[1] = i => c <= f[2]
    IN  [open |-> i, close |-> j]

\* the tag after an opening fence: the longest run of word characters that
\* starts right after it (empty when none is given)
TagAfter(str, i) ==
    LET lengths == {n \in 0..(Len(str) - i - 2) :
                       \A k \in 1..n : str[i + 2 + k] \in WordChars}
        n == CHOOSE l \in lengths : \A m \in lengths : m <= l
    IN  SubSeq(str, i + 3, i + 2 + n)

\* what the claim expects for a text with a closed fence
ExpectedParts(str) ==
    LET f == FirstClosedFence(str)
        before == SubSeq(str, 1, f.open - 1)
        tag == TagAfter(str, f.open)
        body == SubSeq(str, f.open + 3 + Len(tag), f.close - 1)
        rest == SubSeq(str, f.close + 3, Len(str))
    IN  (IF before # <<>>
         THEN <<[type |-> "text", language |-> None, content |-> before]>>
         ELSE <<>>)
        \o <<[type |-> "code",
              language |-> Some(IF tag # <<>> THEN tag ELSE <<"t", "e", "x", "t">>),
              content |-> trim(body)]>>
        \o detectCodeBlocks(rest)

ExampleParts ==
    <<[type |-> "text", language |-> None, content |-> <<"a", " ">>],
      [type |-> "code", language |-> Some(<<"j", "s">>),
       content |-> <<"c", "o", "d", "e">>],
      [type |-> "text", language |-> None, content |-> <<" ", "b">>]>>

\* C18: for every closed fence of the input, detectCodeBlocks emits a text
\* part for the non-empty content before the fence and then a code part
\* whose language is the tag given after the opening fence, or "text" when
\* none is given, and whose content is the body of the fence trimmed of
\* leading and trailing white space; the rest of the input is segmented the
\* same way.  In particular "a ```js\ncode\n``` b" yields
\* [Text("a "), Code("js", "code"), Text(" b")].
C18_FenceBecomesCodePart ==
    parts # None =>
        /\ ClosedFences(renderedText) # {} =>
               parts[1] = ExpectedParts(renderedText)
        /\ renderedText = ExampleText => parts[1] = ExampleParts

\* the example of the claim has been segmented
C18_Witness ==
    /\ renderedText = ExampleText
    /\ parts = Some(ExampleParts)

(* ---------------------------------------------------------------------- *)
\* a code part stands for the fenced region that is the first n characters
\* of str: the region opens and closes with a fence, and the part holds its
\* tag and its trimmed body
IsFencedRegion(p, str, n) ==
    /\ n >= 6
    /\ FenceAt(str, 1)
    /\ FenceAt(str, n - 2)
    /\ LET tag == TagAfter(SubSeq(str, 1, n - 3), 1) IN
       /\ p.language = Some(IF tag # <<>> THEN tag ELSE <<"t", "e", "x", "t">>)
       /\ p.content = trim(SubSeq(str, 4 + Len(tag), n - 3))

\* the parts, taken in order, are consecutive pieces of str that use it up:
\* a text part is the piece itself, a code part a fenced region
RECURSIVE Reassembles(_, _)
Reassembles(ps, str) ==
    IF ps = <<>>
    THEN str = <<>>
    ELSE LET p == Head(ps) IN
         IF p.type = "text"
         THEN /\ p.content # <<>>
              /\ IsPrefix(p.content, str)
              /\ Reassembles(Tail(ps),
                             SubSeq(str, Len(p.content) + 1, Len(str)))
         ELSE /\ p.type = "code"
              /\ \E n \in 6..Len(str) :
                    /\ IsFencedRegion(p, str, n)
                    /\ Reassembles(Tail(ps), SubSeq(str, n + 1, Len(str)))

\* C19: detectCodeBlocks partitions its input in order: the text parts and
\* the fenced regions of the code parts, concatenated in output order,
\* reproduce the input exactly; no text part is empty; an opening fence that
\* is never closed produces no code part and stays inside a text part (no
\* text part holds a closed fence, and a text without a closed fence gives
\* no code part).
C19_PartsPartitionInput ==
    parts # None =>
        /\ Reassembles(parts[1], renderedText)
        /\ \A k \in 1..Len(parts[1]) :
              parts[1][k].type = "text" =>
                  /\ parts[1][k].content # <<>>
                  /\ ClosedFences(parts[1][k].content) = {}
        /\ ClosedFences(renderedText) = {} =>
               \A k \in 1..Len(parts[1]) : parts[1][k].type = "text"

\* a closed fence followed by an opening fence that is never closed: one
\* code part, and the open fence in the text part after it
C19_Witness ==
    /\ renderedText = Fence \o <<"j">> \o Fence \o <<" ">> \o Fence \o <<"j">>
    /\ parts # None
    /\ Len(parts[1]) = 2
    /\ parts[1][1].type = "code"
    /\ parts[1][2] = textPart(<<" ">> \o Fence \o <<"j">>)

(* ---------------------------------------------------------------------- *)
\* C20: toggling the timestamp display of the message at index flips that
\* message's showTime flag and nothing else: its type, content, timestamp
\* and searchResults, every other message, the length of the log, isLoading
\* (Idle or AwaitingResponse), the request in flight and the persisted
\* snapshot are as before.
C20_ToggleFlipsOnlyShowTime ==
    [][\A index \in 1..Len(messages) :
          toggleTimeVisibility(index) =>
              /\ Len(messages') = Len(messages)
              /\ messages'[index].showTime = ~messages[index].showTime
              /\ messages'[index].type = messages[index].type
              /\ messages'[index].content = messages[index].content
              /\ messages'[index].timestamp = messages[index].timestamp
              /\ messages'[index].searchResults = messages[index].searchResults
              /\ \A k \in 1..Len(messages) :
                    k # index => messages'[k] = messages[k]
              /\ isLoading' = isLoading
              /\ calls' = calls
              /\ storage' = storage]_vars

\* a time has been switched on while a request was in flight, and the
\* snapshot still holds the flag as it was saved
C20_Witness ==
    /\ mounted
    /\ isLoading
    /\ lastOp = "other"
    /\ storage # None
    /\ Len(storage[1].messages) = Len(messages)
    /\ \E k \in 1..Len(messages) :
          /\ messages[k].showTime
          /\ ~storage[1].messages[k].showTime

(* ---------------------------------------------------------------------- *)
ResolutionOutcomes ==
    {"askAI:failed", "askAI:searching", "askAI:answered",
     "search:failed", "search:results", "search:empty"}

\* C21: clear history invoked while the controller is AwaitingResponse
\* resets the log to the greeting but neither cancels the request in flight
\* nor returns the controller to Idle; on the open page AwaitingResponse
\* ends only when the request resolves or fails, and what the request then
\* produces is appended to the log as it stands, after the greeting.
C21_ClearDoesNotCancel ==
    /\ [][(clearChatHistory /\ isLoading) =>
            /\ isLoading'
            /\ calls' = calls
            /\ Len(calls') = 1
            /\ messages' = <<greeting("current", now)>>]_vars
    /\ [][(isLoading /\ mounted' /\ ~isLoading') =>
            lastOp' \in ResolutionOutcomes]_vars
    /\ [][(mounted /\ lastOp' \in ResolutionOutcomes) =>
            /\ messages # <<>>
            /\ messages[1].content = GreetingText
            /\ Len(messages') \in {Len(messages), Len(messages) + 1}
            /\ SubSeq(messages', 1, Len(messages)) = messages]_vars

\* the history was cleared between the answer and the search it triggered:
\* the results message stands right after the greeting of the reset log
C21_Witness ==
    /\ mounted
    /\ ~isLoading
    /\ lastOp = "search:results"
    /\ Len(messages) = 2
    /\ messages[1].content = GreetingText
    /\ messages[2].searchResults # None

(* ---------------------------------------------------------------------- *)
\* C22: in every reachable state of the open page, starting from an absent
\* store and over every reload of what this controller has stored, the log
\* is not empty and its first message is an assistant message, the seeded
\* greeting.
C22_LogStartsWithGreeting ==
    mounted =>
        /\ messages # <<>>
        /\ messages[1].type = "ai"
        /\ messages[1].content = GreetingText
        /\ messages[1].searchResults = None

\* a log of several messages read back from the store on a second page
\* load still starts with the greeting
C22_Witness ==
    /\ mounted
    /\ mounts = 2
    /\ lastOp = "mount:restored"
    /\ Len(messages) >= 3
    /\ messages[1].content = GreetingText
    /\ messages[2].type = "user"

====
